---- MODULE Spec2Model ----
(***************************************************************************)
(* Model of js/bench/decode.ts: the command-line benchmark that loads the  *)
(* tile fixtures, optionally cross-validates the MLT decode against the    *)
(* MVT decode, and then runs one benchmark.js suite per tile.              *)
(*                                                                         *)
(* External collaborators are modelled by what the program observes of     *)
(* them:                                                                   *)
(*  - a tile blob is the set of views its decoder may return for it (a     *)
(*    singleton for a deterministic decoder); a view maps each layer name  *)
(*    to the layer's feature count;                                        *)
(*  - layer.feature(i) parses a feature on demand: its property keys and   *)
(*    geometry are drawn when the feature is read;                         *)
(*  - benchmark.js runs the benchmarks of a suite one after the other,     *)
(*    calls a deferred fn a number of times of its own choosing, emits     *)
(*    'cycle' after each benchmark and 'complete' after the last;          *)
(*  - node turns a rejected, unhandled promise into an uncaught error      *)
(*    that ends the process with exit code 1.                              *)
(*                                                                         *)
(* Layer names and tiles are numbered: name k sorts before name k+1.       *)
(***************************************************************************)
EXTENDS Integers, Sequences, FiniteSets, TLC

\* Bounds of the model.
\* Length of the `tiles` list (8 in the source).
NumTiles == 2
\* Layer names are 1..MaxLayers.
MaxLayers == 2
\* A layer holds 0..MaxFeatures features.
MaxFeatures == 1
\* benchmark.js calls a benchmark's fn at most MaxReps times.
MaxReps == 2

\* Program constants.
IN_LOOP_ITERATIONS == 5
minTime == 10
DefaultMaxTime == 20
CIMaxTime == 2

Flags == {"--one", "--validate", "--mlt", "--mvt", "--mltjson", "--mvtjson"}

\* Property keys, in the order Array.prototype.sort() gives them.
Keys == <<"id", "name">>
KeySet == {Keys[k] : k \in 1..Len(Keys)}
GeometryTypes == {"Point", "Polygon"}

Range(s) == {s[k] : k \in 1..Len(s)}

RECURSIVE SortedSeq(_)
\* Object.keys(layers).sort() over numbered names: ascending sequence of S.
SortedSeq(S) ==
    IF S = {} THEN <<>>
    ELSE LET m == CHOOSE a \in S : \A b \in S : a <= b
         IN <<m>> \o SortedSeq(S \ {m})

\* Object.keys(properties).sort(): the keys of S in sorted order.
SortedKeys(S) ==
    LET Has(k) == k \in S IN SelectSeq(Keys, Has)

\* Array.prototype.indexOf, 0-based, -1 when absent.
IndexOf(s, e) ==
    IF e \in Range(s) THEN (CHOOSE k \in 1..Len(s) : s[k] = e /\ \A j \in 1..(k-1) : s[j] # e) - 1
    ELSE 0 - 1

\* Array.prototype.splice(idx, 1) with 0-based idx: s without that element.
Splice(s, idx) ==
    [k \in 1..(Len(s) - 1) |-> IF k <= idx THEN s[k] ELSE s[k + 1]]

RECURSIVE JoinKeys(_)
JoinKeys(s) ==
    IF s = <<>> THEN ""
    ELSE "\"" \o Head(s) \o "\"" \o (IF Len(s) > 1 THEN "," ELSE "") \o JoinKeys(Tail(s))

\* JSON.stringify of an array of strings.
JSONStringify(s) == "[" \o JoinKeys(s) \o "]"

\* Views a decoder can return: layer name -> feature count.
Views == UNION {[L -> 0..MaxFeatures] : L \in SUBSET (1..MaxLayers)}

\* The files of one tile on disk.
File(e, a, b) == [exists |-> e, mlt |-> a, mvt |-> b]
EmptyLayer == (1 :> 0)
OneFeature == (1 :> 1)
MissingFile == File(FALSE, {EmptyLayer}, {EmptyLayer})
\* A one-layer tile whose decoders may lose the layer's only feature.
FlakyFile == File(TRUE, {EmptyLayer, OneFeature}, {EmptyLayer, OneFeature})
\* Tiles with deterministic decoders.
ExactFiles == {File(TRUE, {a}, {b}) : a \in Views, b \in Views}

VARIABLES
    args,       \* process.argv.slice(2), as a set of flags
    env,        \* TRUE iff process.env.GITHUB_RUN_ID is set
    files,      \* tile -> its fixture files
    maxTime,
    pc,         \* position of the top-level script / runSuites
    inputs,     \* runSuites: the loaded inputs (tile numbers)
    ti,         \* runSuites: index of the current tile in its loops
    val,        \* locals of the running validate(input)
    suite,      \* tile -> the benchmark.Suite of runSuite(input)
    opts,       \* tile -> scenario -> <<>> (null) or <<count>>
    promise,    \* tile -> state of the promise returned by runSuite
    call,       \* the last call of a benchmark fn
    console,    \* lines written to the console, in order
    status,     \* "running", "exit" (process.exit), "uncaught", "finished"
    exitCode,
    arg,        \* the argument of a function called on its own
    ret         \* what that call returned or threw

vars == <<args, env, files, maxTime, pc, inputs, ti, val, suite, opts,
          promise, call, console, status, exitCode, arg, ret>>

willValidate == "--validate" \in args
willRunMLT == "--mlt" \in args
willRunMVT == "--mvt" \in args
willRunMLTJSON == "--mltjson" \in args
willRunMVTJSON == "--mvtjson" \in args

\* The `tiles` list after the --one truncation.
tiles == IF "--one" \in args THEN <<1>> ELSE [k \in 1..NumTiles |-> k]


\* The benchmarks runSuite adds, in the order of its four `if` blocks.
Scenarios == <<
    [name |-> "MVT -> loadGeo", flag |-> "--mvt",     codec |-> "mvt", op |-> "loadGeometry"],
    [name |-> "MLT -> loadGeo", flag |-> "--mlt",     codec |-> "mlt", op |-> "loadGeometry"],
    [name |-> "MVT -> GeoJSON", flag |-> "--mvtjson", codec |-> "mvt", op |-> "toGeoJSON"],
    [name |-> "MLT -> GeoJSON", flag |-> "--mltjson", codec |-> "mlt", op |-> "toGeoJSON"] >>

TileSet == 1..NumTiles
ScenarioSet == 1..Len(Scenarios)

\* A console line: the tile it names (0 for none), the feature index or number
\* it names (<<>> for none) and its other text.  No line of the program names
\* a layer.
Line(kind, tile, i, text) ==
    [kind |-> kind, tile |-> tile, layer |-> <<>>, i |-> i, text |-> text]

NoFeature == [properties |-> {}, geometry |-> "Point"]
\* Features an MLT layer can hold: geometry is a raw point or self-describing.
MltFeatures == [properties : SUBSET KeySet, geometry : {"raw"} \cup GeometryTypes]
MvtFeatures == [properties : SUBSET KeySet, geometry : GeometryTypes]

NoVal == [decoded |-> <<>>, mvtDecoded |-> <<>>, layerNames |-> <<>>, li |-> 1,
          i |-> 0, count |-> 0, read |-> FALSE,
          feature |-> NoFeature, mvtFeature |-> NoFeature,
          pairs |-> 0]
NoSuite == [started |-> FALSE, bench |-> <<>>, bi |-> 1, calls |-> 0, completed |-> FALSE,
            options |-> [defer |-> TRUE, minTime |-> 0, maxTime |-> 0]]
\* The calls of the fn of one benchmark: the counts of all its passes so far,
\* and the passes and deferred.resolve() calls of the last call.
NoCall == [tile |-> 0, scenario |-> 0, visited |-> <<>>, passes |-> 0, resolved |-> 0,
           decoded |-> <<>>]

InitRest ==
    /\ maxTime = DefaultMaxTime
    /\ pc = "main"
    /\ inputs = <<>>
    /\ ti = 1
    /\ val = NoVal
    /\ suite = [t \in TileSet |-> NoSuite]
    /\ opts = [t \in TileSet |-> [s \in ScenarioSet |-> <<>>]]
    /\ promise = [t \in TileSet |-> "none"]
    /\ call = NoCall
    /\ console = <<>>
    /\ status = "running"
    /\ exitCode = 0

\* No function is called on its own.
NoArg == [fn |-> "none"]
NoRet == [threw |-> "none"]

\* Any command line, any environment; each tile's files are missing or flaky.
Init ==
    /\ args \in SUBSET Flags
    /\ env \in BOOLEAN
    /\ files \in [TileSet -> {MissingFile, FlakyFile}]
    /\ arg = NoArg /\ ret = NoRet
    /\ InitRest

\* process.exit(code) after printing `lines`.
Exit(lines, code) ==
    /\ console' = console \o lines
    /\ status' = "exit"
    /\ exitCode' = code

\* An exception that rejects the promise of runSuites, which nobody handles.
Uncaught(lines, text) ==
    /\ console' = console \o lines \o <<Line("uncaught", 0, <<>>, text)>>
    /\ status' = "uncaught"
    /\ exitCode' = 1

\* Mutant: the script without the usage check of lines 47-50.
StartupNoUsageCheck ==
    /\ status = "running" /\ pc = "main"
    /\ maxTime' = IF env THEN CIMaxTime ELSE DefaultMaxTime
    /\ console' = console \o (IF env THEN <<Line("ci", 0, <<CIMaxTime>>, "")>> ELSE <<>>)
    /\ pc' = "load"
    /\ UNCHANGED <<status, exitCode>>
    /\ UNCHANGED <<arg, ret, args, env, files, inputs, ti, val, suite, opts, promise, call>>

\* Lines 12-58: the top-level script up to the call of runSuites.
Startup ==
    /\ status = "running" /\ pc = "main"
    /\ IF ~willRunMLT /\ ~willRunMVT /\ ~willRunMLTJSON /\ ~willRunMVTJSON
       THEN /\ Exit(<<Line("usage", 0, <<>>, "")>>, 1)
            /\ UNCHANGED <<maxTime, pc>>
       ELSE /\ maxTime' = IF env THEN CIMaxTime ELSE DefaultMaxTime
            /\ console' = console \o (IF env THEN <<Line("ci", 0, <<CIMaxTime>>, "")>> ELSE <<>>)
            /\ pc' = "load"
            /\ UNCHANGED <<status, exitCode>>
    /\ UNCHANGED <<arg, ret, args, env, files, inputs, ti, val, suite, opts, promise, call>>

\* Lines 270-272: one iteration of the loading loop; readFileSync throws on a
\* missing file.
LoadTile ==
    /\ status = "running" /\ pc = "load" /\ ti <= Len(tiles)
    /\ IF ~files[tiles[ti]].exists
       THEN /\ Uncaught(<<>>, "ENOENT")
            /\ UNCHANGED <<inputs, ti, pc>>
       ELSE /\ inputs' = Append(inputs, tiles[ti])
            /\ IF ti < Len(tiles)
               THEN ti' = ti + 1 /\ pc' = pc
               ELSE ti' = 1 /\ pc' = IF willValidate THEN "validate" ELSE "suites"
            /\ UNCHANGED <<console, status, exitCode>>
    /\ UNCHANGED <<arg, ret, args, env, files, maxTime, val, suite, opts, promise, call>>

\* The workaround of lines 85-87: drop 'id' from the MVT keys when it is there.
RemoveId(mvtFeatureKeys) ==
    IF IndexOf(mvtFeatureKeys, "id") # 0 - 1
    THEN Splice(mvtFeatureKeys, IndexOf(mvtFeatureKeys, "id"))
    ELSE mvtFeatureKeys

featureKeysOf(feature) == SortedKeys(feature.properties)
mvtFeatureKeysOf(mvtFeature) == RemoveId(SortedKeys(mvtFeature.properties))

\* Line 91: the test that ends the process.
KeysDiffer(feature, mvtFeature) ==
    JSONStringify(featureKeysOf(feature)) # JSONStringify(mvtFeatureKeysOf(mvtFeature))

\* Feature.toGeoJSON(x, y, z).geometry.type of an MLT feature.
GeoJSONType(feature) ==
    IF feature.geometry = "raw" THEN "Point" ELSE feature.geometry

\* console.assert(cond, message): prints when cond is false, and returns.
ConsoleAssert(cond, line) == IF cond THEN <<>> ELSE <<line>>

\* Lines 275, 72-75: runSuites announces the tile and calls validate, whose
\* executor decodes both blobs and sorts the MLT layer names.
ValidateStart ==
    /\ status = "running" /\ pc = "validate" /\ ti <= Len(inputs)
    /\ \E decoded \in files[inputs[ti]].mlt, mvtDecoded \in files[inputs[ti]].mvt :
         val' = [NoVal EXCEPT !.decoded = decoded, !.mvtDecoded = mvtDecoded,
                              !.layerNames = SortedSeq(DOMAIN decoded)]
    /\ console' = Append(console, Line("validating", inputs[ti], <<>>, ""))
    /\ pc' = "validating"
    /\ UNCHANGED <<arg, ret, args, env, files, maxTime, inputs, ti, suite, opts, promise,
                   call, status, exitCode>>

\* Lines 80-100: one iteration of the feature loop of validate.
ValidateFeature ==
    /\ status = "running" /\ pc = "validating"
    /\ val.li <= Len(val.layerNames)
    /\ LET layerName == val.layerNames[val.li]
           tile == inputs[ti]
       IN /\ val.i < val.decoded[layerName]
          /\ IF layerName \notin DOMAIN val.mvtDecoded
             THEN \* mvtLayer is undefined: mvtLayer.feature throws a TypeError
                  /\ Uncaught(<<>>, "TypeError")
                  /\ UNCHANGED val
             ELSE IF val.i >= val.mvtDecoded[layerName]
             THEN \* VectorTileLayer.feature: 'feature index out of bounds'
                  /\ Uncaught(<<>>, "Error")
                  /\ UNCHANGED val
             ELSE \E feature \in MltFeatures, mvtFeature \in MvtFeatures :
                  LET lengths == ConsoleAssert(
                          Len(featureKeysOf(feature)) = Len(mvtFeatureKeysOf(mvtFeature)),
                          Line("assert-keys", tile, <<>>, ""))
                      geometry == ConsoleAssert(
                          GeoJSONType(feature) = mvtFeature.geometry,
                          Line("assert-geometry", tile, <<val.i>>, ""))
                  IN IF KeysDiffer(feature, mvtFeature)
                     THEN /\ Exit(lengths \o
                                  <<Line("validation-failed", tile, <<val.i>>, ""),
                                    Line("log", 0, <<>>, JSONStringify(featureKeysOf(feature))),
                                    Line("log", 0, <<>>, "  vs"),
                                    Line("log", 0, <<>>, JSONStringify(mvtFeatureKeysOf(mvtFeature)))>>,
                                  1)
                          /\ val' = [val EXCEPT !.read = TRUE, !.feature = feature,
                                                !.mvtFeature = mvtFeature,
                                                !.pairs = val.pairs + 1]
                     ELSE /\ console' = console \o lengths \o geometry
                          /\ val' = [val EXCEPT !.read = TRUE, !.feature = feature,
                                                !.mvtFeature = mvtFeature,
                                                !.pairs = val.pairs + 1,
                                                !.i = val.i + 1]
                          /\ UNCHANGED <<status, exitCode>>
    /\ UNCHANGED <<arg, ret, args, env, files, maxTime, pc, inputs, ti, suite, opts, promise, call>>

\* Mutant: a layer may be left before its last feature.
ValidateLayerSkip ==
    /\ status = "running" /\ pc = "validating"
    /\ val.li <= Len(val.layerNames)
    /\ val' = [val EXCEPT !.count = val.count + 1, !.li = val.li + 1, !.i = 0]
    /\ UNCHANGED <<arg, ret, args, env, files, maxTime, pc, inputs, ti, suite, opts, promise,
                   call, console, status, exitCode>>

\* Line 102: the feature loop of a layer is over.
ValidateLayer ==
    /\ status = "running" /\ pc = "validating"
    /\ val.li <= Len(val.layerNames)
    /\ val.i >= val.decoded[val.layerNames[val.li]]
    /\ val' = [val EXCEPT !.count = val.count + 1, !.li = val.li + 1, !.i = 0]
    /\ UNCHANGED <<arg, ret, args, env, files, maxTime, pc, inputs, ti, suite, opts, promise,
                   call, console, status, exitCode>>

\* Lines 104-105: the layer loop is over; validate resolves.
ValidateEnd ==
    /\ status = "running" /\ pc = "validating"
    /\ val.li > Len(val.layerNames)
    /\ console' = console \o
                  ConsoleAssert(val.count > 0, Line("assert-count", inputs[ti], <<>>, ""))
    /\ pc' = "validated"
    /\ UNCHANGED <<arg, ret, args, env, files, maxTime, inputs, ti, val, suite, opts, promise,
                   call, status, exitCode>>

\* Mutant: each tile's suite is run right after its validation.
ValidatePassedThenBench ==
    /\ status = "running" /\ pc = "validated"
    /\ console' = Append(console, Line("passed", inputs[ti], <<>>, ""))
    /\ pc' = "suites"
    /\ UNCHANGED <<arg, ret, args, env, files, maxTime, inputs, ti, val, suite, opts, promise,
                   call, status, exitCode>>

\* Lines 277, 274, 279: after `await validate(input)`.
ValidatePassed ==
    /\ status = "running" /\ pc = "validated"
    /\ console' = Append(console, Line("passed", inputs[ti], <<>>, ""))
    /\ IF ti < Len(inputs)
       THEN ti' = ti + 1 /\ pc' = "validate"
       ELSE ti' = 1 /\ pc' = "suites"
    /\ UNCHANGED <<arg, ret, args, env, files, maxTime, inputs, val, suite, opts, promise,
                   call, status, exitCode>>

RECURSIVE Traverse(_, _, _)
\* The layer loop of a benchmark pass: the inner loop adds one per feature.
Traverse(decoded, layerNames, count) ==
    IF layerNames = <<>> THEN count
    ELSE Traverse(decoded, Tail(layerNames), count + decoded[Head(layerNames)])

\* Mutants of the test: without the drift check, without the zero check.
CountMismatchNoDrift(count, o) == count < 1
CountMismatchNoZero(count, o) == count # o[1]

\* Lines 139, 176, 213, 250: the test that ends the process.
CountMismatch(count, o) == count # o[1] \/ count < 1

RECURSIVE FnLoopShort(_, _, _, _)
\* Mutant: the loop stops one pass early.
FnLoopShort(ds, i, o, visited) ==
    IF i >= IN_LOOP_ITERATIONS
    THEN [opts |-> o, visited |-> visited, exited |-> FALSE, resolved |-> 1]
    ELSE LET count == Traverse(ds[i], SortedSeq(DOMAIN ds[i]), 0)
         IN IF o = <<>>
            THEN FnLoopShort(ds, i + 1, <<count>>, Append(visited, count))
            ELSE IF CountMismatch(count, o)
            THEN [opts |-> o, visited |-> Append(visited, count),
                  exited |-> TRUE, resolved |-> 0]
            ELSE FnLoopShort(ds, i + 1, o, Append(visited, count))

RECURSIVE FnLoop(_, _, _, _)
\* The loop of a benchmark fn from pass i on; ds[i] is what pass i decodes.
FnLoop(ds, i, o, visited) ==
    IF i > IN_LOOP_ITERATIONS
    THEN [opts |-> o, visited |-> visited, exited |-> FALSE, resolved |-> 1]
    ELSE LET count == Traverse(ds[i], SortedSeq(DOMAIN ds[i]), 0)
         IN IF o = <<>>
            THEN FnLoop(ds, i + 1, <<count>>, Append(visited, count))
            ELSE IF CountMismatch(count, o)
            THEN [opts |-> o, visited |-> Append(visited, count),
                  exited |-> TRUE, resolved |-> 0]
            ELSE FnLoop(ds, i + 1, o, Append(visited, count))

\* The scenarios runSuite adds under the given flags, in order.
Added ==
    LET On(k) == Scenarios[k].flag \in args
    IN SelectSeq([k \in ScenarioSet |-> k], On)

Blob(t, s) == IF Scenarios[s].codec = "mvt" THEN files[t].mvt ELSE files[t].mlt

\* benchmark.js emits the suite's 'complete' once every benchmark has run.
SuiteFinished(su) == su.bi > Len(su.bench)

\* Mutant: runSuite(input) is not awaited.
ResumedAtOnce(t) == TRUE

\* `await runSuite(input)` resumes once the promise is resolved.
Resumed(t) == promise[t] = "resolved"

\* Lines 281-282, 110-264: runSuites announces the tile and calls runSuite,
\* which builds the suite and starts it asynchronously.
RunSuite ==
    /\ status = "running" /\ pc = "suites" /\ ti <= Len(inputs)
    /\ LET t == inputs[ti]
       IN /\ console' = Append(console, Line("running", t, <<>>, ""))
          /\ suite' = [suite EXCEPT ![t] = [NoSuite EXCEPT !.started = TRUE, !.bench = Added,
                                                      !.options.minTime = minTime,
                                                      !.options.maxTime = maxTime]]
          /\ opts' = [opts EXCEPT ![t] = [s \in ScenarioSet |-> <<>>]]
          /\ promise' = [promise EXCEPT ![t] = "pending"]
    /\ pc' = "await"
    /\ UNCHANGED <<arg, ret, args, env, files, maxTime, inputs, ti, val, call, status, exitCode>>

\* One call of the fn of the current benchmark of tile t's suite.
BenchCall(t) ==
    /\ status = "running" /\ suite[t].started
    /\ suite[t].bi <= Len(suite[t].bench)
    /\ suite[t].calls < MaxReps
    /\ LET s == suite[t].bench[suite[t].bi]
       IN \E ds \in [1..IN_LOOP_ITERATIONS -> Blob(t, s)] :
            LET before == IF call.tile = t /\ call.scenario = s THEN call.visited ELSE <<>>
                r == FnLoop(ds, 1, opts[t][s], before)
            IN /\ opts' = [opts EXCEPT ![t][s] = r.opts]
               /\ call' = [tile |-> t, scenario |-> s, visited |-> r.visited,
                           passes |-> Len(r.visited) - Len(before),
                           resolved |-> r.resolved,
                           decoded |-> SubSeq(ds, 1, Len(r.visited) - Len(before))]
               /\ IF r.exited
                  THEN /\ Exit(<<Line("count-mismatch", t, <<>>, "")>>, 1)
                       /\ UNCHANGED suite
                  ELSE /\ suite' = [suite EXCEPT ![t].calls = @ + 1]
                       /\ UNCHANGED <<console, status, exitCode>>
    /\ UNCHANGED <<arg, ret, args, env, files, maxTime, pc, inputs, ti, val, promise>>

\* Lines 113-115: benchmark.js ends the current benchmark and emits 'cycle'.
BenchCycle(t) ==
    /\ status = "running" /\ suite[t].started
    /\ suite[t].bi <= Len(suite[t].bench)
    /\ suite[t].calls >= 1
    /\ console' = Append(console, Line("cycle", t, <<>>,
                                       Scenarios[suite[t].bench[suite[t].bi]].name))
    /\ suite' = [suite EXCEPT ![t].bi = @ + 1, ![t].calls = 0]
    /\ UNCHANGED <<arg, ret, args, env, files, maxTime, pc, inputs, ti, val, opts, promise,
                   call, status, exitCode>>

\* Lines 148-151, 185-188, 222-225, 259-262: the suite emits 'complete' and
\* every registered handler prints its total and resolves the promise.
SuiteComplete(t) ==
    /\ status = "running" /\ suite[t].started
    /\ SuiteFinished(suite[t])
    /\ ~suite[t].completed
    /\ console' = console \o
           [k \in 1..Len(suite[t].bench) |->
               Line("total", t, opts[t][suite[t].bench[k]], Scenarios[suite[t].bench[k]].name)]
    /\ promise' = [promise EXCEPT ![t] = "resolved"]
    /\ suite' = [suite EXCEPT ![t].completed = TRUE]
    /\ UNCHANGED <<arg, ret, args, env, files, maxTime, pc, inputs, ti, val, opts, call,
                   status, exitCode>>

\* Lines 280, 283: after `await runSuite(input)`.
AwaitSuite ==
    /\ status = "running" /\ pc = "await"
    /\ Resumed(inputs[ti])
    /\ IF ti < Len(inputs)
       THEN ti' = ti + 1 /\ pc' = "suites"
       ELSE ti' = ti /\ pc' = "end"
    /\ UNCHANGED <<arg, ret, args, env, files, maxTime, inputs, val, suite, opts, promise,
                   call, console, status, exitCode>>

\* A suite that still has a benchmark to run or a 'complete' to emit.
Pending(t) == suite[t].started /\ ~suite[t].completed

\* runSuites has returned and nothing is left to run: node exits with 0.
Finish ==
    /\ status = "running" /\ pc = "end"
    /\ \A t \in TileSet : ~Pending(t)
    /\ status' = "finished"
    /\ exitCode' = 0
    /\ UNCHANGED <<arg, ret, args, env, files, maxTime, pc, inputs, ti, val, suite, opts,
                   promise, call, console>>

Next ==
    \/ Startup
    \/ LoadTile
    \/ ValidateStart
    \/ ValidateFeature
    \/ ValidateLayer
    \/ ValidateEnd
    \/ ValidatePassed
    \/ RunSuite
    \/ \E t \in TileSet : BenchCall(t)
    \/ \E t \in TileSet : BenchCycle(t)
    \/ \E t \in TileSet : SuiteComplete(t)
    \/ AwaitSuite
    \/ Finish

Spec == Init /\ [][Next]_vars

\* One tile with deterministic decoders, validated and then benchmarked.
InitValidate ==
    /\ args = {"--one", "--validate", "--mvt"}
    /\ env = FALSE
    /\ files \in {[t \in TileSet |-> IF t = 1 THEN f ELSE MissingFile] : f \in ExactFiles}
    /\ arg = NoArg /\ ret = NoRet
    /\ InitRest

SpecValidate == InitValidate /\ [][Next]_vars

(***************************************************************************)
(* Properties.                                                             *)
(***************************************************************************)
HasLine(kind, t) == \E k \in 1..Len(console) : console[k].kind = kind /\ console[k].tile = t
Aborted == status = "exit" /\ exitCode = 1

\* C1: a pass of a benchmark whose feature count differs from the count of
\* the benchmark's first pass is the last pass made and the process has
\* exited with code 1; so all passes that completed, over all calls of the
\* fn, counted the same number of features.
C1_CountInvariant ==
    \A k \in 1..Len(call.visited) :
        call.visited[k] # call.visited[1]
            => k = Len(call.visited) /\ Aborted /\ call.resolved = 0
               /\ HasLine("count-mismatch", call.tile)

\* C1 witness: a later call of the fn met a count other than the first one
\* and the process has exited.
C1_DriftAborted ==
    /\ Len(call.visited) > IN_LOOP_ITERATIONS
    /\ call.visited[Len(call.visited)] # call.visited[1]
    /\ Aborted

\* C2: a benchmark whose first pass counts no feature ends the process with
\* code 1 within that call, and no total below 1 is ever printed.
C2_ZeroAborts ==
    /\ (call.visited # <<>> /\ call.visited[1] = 0) => Aborted
    /\ \A k \in 1..Len(console) :
          console[k].kind = "total" => console[k].i # <<>> /\ console[k].i[1] >= 1

\* C2 witness: two passes over a tile without features, and the exit.
C2_ZeroSeen ==
    /\ call.visited = <<0, 0>>
    /\ Aborted
    /\ HasLine("count-mismatch", call.tile)

\* The key sets of a pair differ once an 'id' key that only the MVT side has
\* is removed from the MVT side.
KeySetsDiffer(feature, mvtFeature) ==
    feature.properties #
        (IF "id" \in mvtFeature.properties /\ "id" \notin feature.properties
         THEN mvtFeature.properties \ {"id"}
         ELSE mvtFeature.properties)

\* The key check has ended the process on the pair last read.
KeyCheckFailed == Aborted /\ HasLine("validation-failed", 1)

\* C3: the key check of validate ends the process with code 1 exactly when
\* the key sets of the pair differ after an MVT-only 'id' is removed.
C3_KeyCheckExact ==
    val.read => (KeyCheckFailed <=> KeySetsDiffer(val.feature, val.mvtFeature))

\* C4: a tile for which validate met a pair with differing geometry types is
\* never reported as passed.
C4_GeometryMismatchFails ==
    \A t \in TileSet : HasLine("assert-geometry", t) => ~HasLine("passed", t)

\* C5: a tile is reported as passed only if validate counted a layer and the
\* two decodes share a layer with features.
C5_EmptyValidationFails ==
    HasLine("passed", 1) =>
        /\ val.count > 0
        /\ \E l \in DOMAIN val.decoded \cap DOMAIN val.mvtDecoded :
              val.decoded[l] > 0 /\ val.mvtDecoded[l] > 0

\* C6: when the MLT decode has a layer the MVT decode lacks, validate neither
\* throws nor lets the tile pass.
C6_AbsentLayerIsMismatch ==
    (pc \in {"validating", "validated", "suites", "await", "end"}
        /\ ~(DOMAIN val.decoded \subseteq DOMAIN val.mvtDecoded))
    => status # "uncaught" /\ ~HasLine("passed", 1)

\* C7: a tile is reported as passed only if both decodes have the same layer
\* names, in particular only if the MLT decode has every layer of the MVT
\* decode; stated for the tiles whose validation counted a layer, which do
\* not depend on the outcome of the empty-validation check.
C7_NoMvtOnlyLayer ==
    (HasLine("passed", 1) /\ val.count > 0)
        => DOMAIN val.mvtDecoded \subseteq DOMAIN val.decoded

Started == {t \in TileSet : suite[t].started}
Validating == pc \in {"validating", "validated"}

\* C8: under --validate a suite is started only after every loaded tile was
\* reported as passed, and a failed key check has ended the process with
\* code 1 while no suite was started and no benchmark fn was called.
C8_ValidateBeforeBench ==
    willValidate =>
        /\ Started # {} =>
              /\ ~Validating /\ pc # "validate"
              /\ \A k \in 1..Len(tiles) : HasLine("passed", tiles[k])
        /\ (\E t \in TileSet : HasLine("validation-failed", t)) =>
              /\ Aborted
              /\ Started = {}
              /\ call = NoCall

\* C8 witness: both tiles were validated and the second tile's suite runs.
C8_BenchAfterValidation ==
    /\ willValidate
    /\ Len(inputs) > 1
    /\ suite[inputs[Len(inputs)]].started
    /\ call.tile = inputs[Len(inputs)]

\* The steps in progress: the validation of a tile, the suites that still
\* have a benchmark to run.
ActiveSteps ==
    (IF Validating THEN {<<"validate", inputs[ti]>>} ELSE {})
    \cup {<<"suite", t>> : t \in {u \in Started : ~SuiteFinished(suite[u])}}

\* C9: at most one step is in progress, and while a suite is in progress
\* every other started suite has emitted 'complete' and resolved its promise.
C9_OneActiveStep ==
    /\ Cardinality(ActiveSteps) <= 1
    /\ \A t \in Started : \A u \in Started \ {t} :
          ~SuiteFinished(suite[t]) => suite[u].completed /\ promise[u] = "resolved"
    /\ Validating => Started = {}

\* C9 witness: the second tile's suite is at its second benchmark after the
\* first tile's suite has completed, the tiles having been validated.
C9_SecondSuiteRuns ==
    /\ willValidate
    /\ Len(inputs) > 1
    /\ suite[inputs[1]].completed
    /\ ActiveSteps = {<<"suite", inputs[2]>>}
    /\ suite[inputs[2]].bi = 2
    /\ suite[inputs[2]].calls > 0

FailureKinds == {"assert-keys", "validation-failed", "assert-geometry",
                 "assert-count", "count-mismatch", "uncaught"}

\* C10: a process that has ended after printing a validation or invariant
\* failure has a non-zero exit code.
C10_FailureExitsNonZero ==
    (status # "running" /\ \E k \in 1..Len(console) : console[k].kind \in FailureKinds)
        => exitCode # 0

\* Scenario k of tile t's suite is over and the next one has begun measuring.
NextBegun(t, k) ==
    \/ suite[t].bi > k + 1
    \/ suite[t].bi = k + 1 /\ suite[t].calls > 0

\* C11: once the scenario after scenario k of a tile has begun measuring, the
\* total line of scenario k, and before it its throughput line, are on the
\* console.
C11_TotalAfterEachScenario ==
    \A t \in Started : \A k \in 1..Len(suite[t].bench) :
        NextBegun(t, k) =>
            \E j \in 1..Len(console) : \E h \in 1..(j - 1) :
                /\ console[j].kind = "total" /\ console[j].tile = t
                /\ console[j].text = Scenarios[suite[t].bench[k]].name
                /\ console[h].kind = "cycle" /\ console[h].tile = t
                /\ console[h].text = Scenarios[suite[t].bench[k]].name

NoOperation == ~willRunMLT /\ ~willRunMVT /\ ~willRunMLTJSON /\ ~willRunMVTJSON

\* C12: without an operation flag the process does nothing but print the
\* usage error and exit with code 1: no tile is loaded, validated or
\* benchmarked, with or without --validate.
C12_UsageError ==
    NoOperation =>
        /\ inputs = <<>> /\ val = NoVal /\ Started = {} /\ call = NoCall
        /\ pc = "main"
        /\ status \in {"running", "exit"}
        /\ status = "exit" =>
              /\ exitCode = 1
              /\ console = <<Line("usage", 0, <<>>, "")>>

\* C12 witness: --validate without an operation flag has ended in the usage
\* error.
C12_UsageExit ==
    /\ NoOperation /\ willValidate
    /\ Aborted
    /\ console = <<Line("usage", 0, <<>>, "")>>

(***************************************************************************)
(* load(tile) called on its own, on any identifier.  A string is the       *)
(* sequence of its characters.                                             *)
(***************************************************************************)
\* Longest identifier tried.
MaxIdLen == 4
Chars == {"/", "-", "4", "a"}
Digits == {"4"}
Idents == UNION {[1..n -> Chars] : n \in 0..MaxIdLen}

RECURSIVE Split(_, _)
\* String.prototype.split(sep) for a one-character separator.
Split(str, sep) ==
    IF sep \notin Range(str) THEN <<str>>
    ELSE LET k == CHOOSE j \in 1..Len(str) :
                     str[j] = sep /\ \A h \in 1..(j - 1) : str[h] # sep
         IN <<SubSeq(str, 1, k - 1)>> \o Split(SubSeq(str, k + 1, Len(str)), sep)

Undefined == [kind |-> "undefined", v |-> 0]
NaN == [kind |-> "NaN", v |-> 0]

RECURSIVE DigitsValue(_, _)
DigitsValue(str, acc) ==
    IF str = <<>> THEN acc
    ELSE DigitsValue(Tail(str), 10 * acc + (IF Head(str) = "4" THEN 4 ELSE 0))

\* Number(str): 0 for the empty string, NaN for anything but digits.
ToNumber(str) ==
    IF Range(str) \subseteq Digits
    THEN [kind |-> "number", v |-> DigitsValue(str, 0)]
    ELSE NaN

\* array[k] for a 0-based k: undefined past the end.
At(array, k) == IF k < Len(array) THEN array[k + 1] ELSE Undefined

\* Lines 60-68: load(tile), `exists` telling whether the three files are there.
load(tile, exists) ==
    IF ~exists THEN [threw |-> "ENOENT", tile |-> tile, x |-> Undefined,
                     y |-> Undefined, z |-> Undefined]
    ELSE IF Len(Split(tile, "/")) < 2
    THEN [threw |-> "TypeError", tile |-> tile, x |-> Undefined,
          y |-> Undefined, z |-> Undefined]
    ELSE LET parts == Split(Split(tile, "/")[2], "-")
             uri == [k \in 1..Len(parts) |-> ToNumber(parts[k])]
         IN [threw |-> "none", tile |-> tile,
             x |-> At(uri, 1), y |-> At(uri, 2), z |-> At(uri, 0)]

LoadCall ==
    /\ arg.fn = "load" /\ ret = NoRet
    /\ ret' = load(arg.tile, arg.exists)
    /\ UNCHANGED <<arg, args, env, files, maxTime, pc, inputs, ti, val, suite, opts,
                   promise, call, console, status, exitCode>>

InitLoad ==
    /\ arg \in [fn : {"load"}, tile : Idents, exists : BOOLEAN]
    /\ ret = NoRet
    /\ args = {} /\ env = FALSE
    /\ files = [t \in TileSet |-> MissingFile]
    /\ InitRest

NextLoad == LoadCall

SpecLoad == InitLoad /\ [][NextLoad]_vars

\* C13: load never returns a fixture whose x, y or z is undefined or NaN.
C13_LoadRejectsMalformed ==
    (arg.fn = "load" /\ ret # NoRet /\ ret.threw = "none")
        => /\ ret.x.kind = "number"
           /\ ret.y.kind = "number"
           /\ ret.z.kind = "number"

\* C14: the diagnostic of a failed key check names the tile, the layer and
\* the feature index of the pair, and the diagnostic of a count abort names
\* the tile.
C14_DiagnosticLocator ==
    /\ \A k \in 1..Len(console) :
          console[k].kind = "validation-failed" =>
              /\ Aborted
              /\ console[k].tile = inputs[ti]
              /\ console[k].i = <<val.i>>
              /\ console[k].layer = <<val.layerNames[val.li]>>
    /\ \A k \in 1..Len(console) :
          console[k].kind = "count-mismatch" =>
              Aborted /\ console[k].tile = call.tile

(***************************************************************************)
(* The Feature class, its two methods called on any feature.  A geometry   *)
(* object is the set of methods it has, the point it stands for and the    *)
(* geometry type it reports.                                               *)
(***************************************************************************)
Coords == {0, 1}
Ids == [repr : {"number", "bigint"}, v : Coords]
Geometries == [caps : SUBSET {"loadGeometry", "toGeoJSON"}, pt : Coords,
               type : GeometryTypes]
Features == [id : Ids, geometry : Geometries, properties : SUBSET KeySet]

\* geometry.loadGeometry() of a geometry that has the method: its own rings.
OwnLoadGeometry(geometry) ==
    <<<<[own |-> geometry.pt], [own |-> geometry.pt]>>>>

\* geometry.toGeoJSON(x, y, z) of a geometry that has the method.
OwnToGeoJSON(geometry, x, y, z) ==
    [type |-> geometry.type,
     coordinates |-> [by |-> "geometry", of |-> geometry.pt, x |-> x, y |-> y, z |-> z]]

\* project(x, y, z, points) of ./Projection: one coordinate pair per point.
Project(x, y, z, points) ==
    [k \in 1..Len(points) |->
        [by |-> "project", of |-> points[k].pt, x |-> x, y |-> y, z |-> z]]

\* Number(id): a plain number of the same value.
NumberOf(id) == [repr |-> "number", v |-> id.v]

\* Mutant: the geometry is wrapped whether or not it can decode itself.
loadGeometryAlwaysWraps(feature) == <<<<feature.geometry>>>>

\* part_000 lines 14-20: Feature.loadGeometry.
loadGeometry(feature) ==
    IF "loadGeometry" \in feature.geometry.caps
    THEN OwnLoadGeometry(feature.geometry)
    ELSE <<<<feature.geometry>>>>

\* Mutant: the id is passed on as it is.
toGeoJSONRawId(feature, x, y, z) ==
    [type |-> "Feature",
     id |-> feature.id,
     geometry |-> IF "toGeoJSON" \in feature.geometry.caps
                  THEN OwnToGeoJSON(feature.geometry, x, y, z)
                  ELSE [type |-> "Point",
                        coordinates |-> Project(x, y, z, <<feature.geometry>>)[1]],
     properties |-> feature.properties]

\* part_000 lines 22-39: Feature.toGeoJSON.
toGeoJSON(feature, x, y, z) ==
    [type |-> "Feature",
     id |-> NumberOf(feature.id),
     geometry |-> IF "toGeoJSON" \in feature.geometry.caps
                  THEN OwnToGeoJSON(feature.geometry, x, y, z)
                  ELSE [type |-> "Point",
                        coordinates |-> Project(x, y, z, <<feature.geometry>>)[1]],
     properties |-> feature.properties]

\* Neither method assigns to the feature: `this` is the feature after the call.
LoadGeometryCall ==
    /\ arg.fn = "Feature" /\ ret = NoRet
    /\ ret' = [threw |-> "none", method |-> "loadGeometry",
               value |-> loadGeometry(arg.feature), this |-> arg.feature]
    /\ UNCHANGED <<arg, args, env, files, maxTime, pc, inputs, ti, val, suite, opts,
                   promise, call, console, status, exitCode>>

ToGeoJSONCall ==
    /\ arg.fn = "Feature" /\ ret = NoRet
    /\ ret' = [threw |-> "none", method |-> "toGeoJSON",
               value |-> toGeoJSON(arg.feature, arg.x, arg.y, arg.z),
               this |-> arg.feature]
    /\ UNCHANGED <<arg, args, env, files, maxTime, pc, inputs, ti, val, suite, opts,
                   promise, call, console, status, exitCode>>

InitFeature ==
    /\ arg \in [fn : {"Feature"}, feature : Features, x : Coords, y : Coords, z : Coords]
    /\ ret = NoRet
    /\ args = {} /\ env = FALSE
    /\ files = [t \in TileSet |-> MissingFile]
    /\ InitRest

NextFeature ==
    \/ LoadGeometryCall
    \/ ToGeoJSONCall

SpecFeature == InitFeature /\ [][NextFeature]_vars

Called(method) == arg.fn = "Feature" /\ ret # NoRet /\ ret.method = method

\* C15: loadGeometry returns what the geometry's own loadGeometry returns
\* when the geometry has that method, and otherwise one ring of one point,
\* the geometry itself; the feature is left as it was.
C15_LoadGeometry ==
    Called("loadGeometry") =>
        /\ "loadGeometry" \in arg.feature.geometry.caps
              => ret.value = OwnLoadGeometry(arg.feature.geometry)
        /\ "loadGeometry" \notin arg.feature.geometry.caps
              => /\ Len(ret.value) = 1
                 /\ Len(ret.value[1]) = 1
                 /\ ret.value[1][1] = arg.feature.geometry
        /\ ret.this = arg.feature

\* C15 witness: a geometry with its own loadGeometry, whose two-point ring
\* was returned.
C15_OwnRingsReturned ==
    /\ Called("loadGeometry")
    /\ "loadGeometry" \in arg.feature.geometry.caps
    /\ Len(ret.value[1]) = 2

\* C16: toGeoJSON returns a "Feature" whose id is the feature's id as a plain
\* number and whose properties are the feature's; its geometry is what the
\* geometry's own toGeoJSON(x, y, z) returns when the geometry has that
\* method, and otherwise a "Point" at the first pair of
\* project(x, y, z, [geometry]).
C16_ToGeoJSON ==
    Called("toGeoJSON") =>
        /\ ret.value.type = "Feature"
        /\ ret.value.id.repr = "number" /\ ret.value.id.v = arg.feature.id.v
        /\ ret.value.properties = arg.feature.properties
        /\ "toGeoJSON" \in arg.feature.geometry.caps
              => ret.value.geometry =
                    OwnToGeoJSON(arg.feature.geometry, arg.x, arg.y, arg.z)
        /\ "toGeoJSON" \notin arg.feature.geometry.caps
              => /\ ret.value.geometry.type = "Point"
                 /\ ret.value.geometry.coordinates =
                       Project(arg.x, arg.y, arg.z, <<arg.feature.geometry>>)[1]
        /\ ret.this = arg.feature

\* C16 witness: a feature with a bigint id and a raw point of a non-point
\* type was projected.
C16_BigIntPointProjected ==
    /\ Called("toGeoJSON")
    /\ arg.feature.id.repr = "bigint"
    /\ "toGeoJSON" \notin arg.feature.geometry.caps
    /\ ret.value.geometry.coordinates.by = "project"
    /\ ret.value.id.repr = "number"

\* C17: a tile whose fixture is missing is the only tile given up: once
\* loading has stopped, every tile whose fixtures exist has been loaded.
C17_MissingFixtureAbortsOnlyTile ==
    (pc = "load" /\ status # "running") =>
        \A k \in 1..Len(tiles) : files[tiles[k]].exists => tiles[k] \in Range(inputs)

\* The features of a decoded tile: one per layer and index.
FeaturesOf(decoded) == UNION {{<<l, j>> : j \in 1..decoded[l]} : l \in DOMAIN decoded}

\* C18: a call of a benchmark fn that did not end the process made exactly
\* IN_LOOP_ITERATIONS passes, each over a fresh decode of the tile and counting
\* every feature of every layer once, and resolved its deferred once; a call
\* that ended the process did not resolve it.
C18_FullPasses ==
    call # NoCall =>
        /\ Len(call.decoded) = call.passes
        /\ \A k \in 1..call.passes :
              call.visited[Len(call.visited) - call.passes + k]
                  = Cardinality(FeaturesOf(call.decoded[k]))
        /\ IF Aborted
           THEN call.resolved = 0
           ELSE call.resolved = 1 /\ call.passes = IN_LOOP_ITERATIONS

\* C18 witness: a second call of a fn finished its five passes over a tile
\* with a feature.
C18_SecondCallResolved ==
    /\ call # NoCall /\ ~Aborted
    /\ call.resolved = 1
    /\ Len(call.visited) = 2 * IN_LOOP_ITERATIONS
    /\ \A k \in 1..call.passes : Cardinality(FeaturesOf(call.decoded[k])) = 1

\* C19 as stated: when validate has resolved, every layer of both decodes
\* holds the same number of features on the two sides.
C19_SameFeatureCounts ==
    pc = "validated" =>
        \A l \in DOMAIN val.decoded \cap DOMAIN val.mvtDecoded :
            val.decoded[l] = val.mvtDecoded[l]

\* C19, amended: when validate has resolved, every feature of the MLT decode
\* was read together with the MVT feature of the same layer and index, so
\* each MLT layer that has features is a layer of the MVT decode with at
\* least as many features; MVT features beyond those are not looked at.
C19_MltFeaturesCompared ==
    pc = "validated" =>
        /\ val.pairs = Cardinality(FeaturesOf(val.decoded))
        /\ \A l \in DOMAIN val.decoded :
              val.decoded[l] > 0 =>
                 /\ l \in DOMAIN val.mvtDecoded
                 /\ val.mvtDecoded[l] >= val.decoded[l]

\* C19 witness: validate resolved after comparing a pair of features while a
\* layer of the MVT decode holds more features than its MLT layer.
C19_SurplusPassed ==
    /\ pc = "validated"
    /\ val.pairs >= 1
    /\ \E l \in DOMAIN val.decoded \cap DOMAIN val.mvtDecoded :
          val.mvtDecoded[l] > val.decoded[l]

\* C20: the timing bounds handed to the scenarios of every suite satisfy
\* 0 < minTime <= maxTime, with or without GITHUB_RUN_ID.
C20_TimingBoundsOrdered ==
    \A t \in Started :
        /\ 0 < suite[t].options.minTime
        /\ suite[t].options.minTime <= suite[t].options.maxTime

====
